---------------------------- MODULE Spec2Model ----------------------------
(***************************************************************************)
(* Northlight benchmark dashboard: the diagnosis decision tree of          *)
(* renderDiagnosis and the helpers it calls (ensureTargetRange,            *)
(* deriveVerdict, deltaPctFromRange, statusFromBench), each with a         *)
(* specification of its own (Spec, SpecBench, SpecVerdict), and the        *)
(* churn-risk waterfall of renderChurnWaterfall (SpecWaterfall).           *)
(*                                                                         *)
(* Numbers.  Metric values, medians, percentiles, range bounds and the     *)
(* goal CPL are integers counting ticks of 0.00001 (the smallest literal   *)
(* of the source, the span floor of ensureTargetRange), so $3 is 300000    *)
(* and a conversion rate of 5% is 5000.  Every metric input of the model   *)
(* is a multiple of 100 ticks, which makes m * 0.15 an integer; every      *)
(* other product of the source (x 1.8, x 1.5, x 0.5, the percentage of     *)
(* deltaPctFromRange) is compared by cross-multiplication and is exact.    *)
(* budget is in whole dollars, clicks and leads are counts.                *)
(*                                                                         *)
(* Optional values.  A JavaScript null/undefined is the empty sequence     *)
(* None, a present value v is <<v>>.                                       *)
(***************************************************************************)
EXTENDS Integers, Sequences, FiniteSets, TLC

VARIABLES
  d,              \* the response passed to renderDiagnosis (line 310)
  diagnosisCard,  \* el.innerHTML of #diagnosisCard (line 311)
  pc,             \* "loaded" before the call, then "rendered" or "threw"
  benchMetric,    \* one benchmarked metric: name, unit, direction, sample
  bench,          \* None, then <<range, verdict, status>> of that metric
  probe,          \* the arguments of one call of deriveVerdict
  probeVerdict,   \* None, then <<the verdict returned for probe>>
  cfg,            \* the config passed to renderChurnWaterfall
  waterfall,      \* None, then <<the bars and footer drawn into root>>
  sbInput,        \* the response passed to renderScenarioBuilder
  sbClosure,      \* its constants goal, current and bounds, once built
  sbState,        \* its variable state: {budget, cpc, cr}
  sbView,         \* what render() last wrote into #scenarioBuilder
  sbEvent,        \* the handler that ran last: "input" or the id clicked
  authToken,      \* part_003 line 15
  currentUser,    \* part_003 line 14
  storedToken,    \* localStorage 'auth_token'
  authCalls,      \* the handleLogin / verifyAuthToken calls in progress
  trajectoryCache,  \* trajectory.js line 5
  trajectoryCalls,  \* the trajectory fetches in flight
  trajectoryLog,    \* history: clears so far, entries served from cache
  partnerCard,    \* one partner card: its drop panel and its loaded flag
  partnerCalls    \* the fetchPartnerDetail calls of that card in flight

diagnosisVars == <<d, diagnosisCard, pc>>
benchVars == <<benchMetric, bench>>
verdictVars == <<probe, probeVerdict>>
waterfallVars == <<cfg, waterfall>>
scenarioVars == <<sbInput, sbClosure, sbState, sbView, sbEvent>>
sessionVars == <<authToken, currentUser, storedToken, authCalls>>
trajectoryVars == <<trajectoryCache, trajectoryCalls, trajectoryLog>>
partnerVars == <<partnerCard, partnerCalls>>

\* The parts of the book page and of the platform page, modelled after
\* the dashboard.
laterVars == <<scenarioVars, sessionVars, trajectoryVars, partnerVars>>

vars == <<diagnosisVars, benchVars, verdictVars, waterfallVars, laterVars>>

None == << >>
Some(x) == <<x>>

Max(a, b) == IF a >= b THEN a ELSE b

(***************************************************************************)
(* Literals of the source, in ticks (metrics) or natural units (volume).   *)
(***************************************************************************)
TicksPerUnit == 100000
PctDefaultMedian == 5000
CpcDefaultMedian == 300000
CplDefaultMedian == 5000000
SpanFloor == 1
SpanPct == 15
DivisorFloorPerTick == 10000
WeakDeltaPct == 15
CrSuspiciousFloor == 15000
TrackingMinClicks == 100
BudgetFloor == 500
SoftBudgetCeiling == 1000
ProvisionalLeads == 15
ProvisionalClicks == 300

(***************************************************************************)
(* metricData?.x on an undefined sample: every field reads as undefined.   *)
(***************************************************************************)
EmptySample ==
  [value |-> None, median |-> None, p25 |-> None, p75 |-> None, target_range |-> None]

Fields(metricData) == IF metricData = None THEN EmptySample ELSE metricData[1]

Range(low, high) == [low |-> Some(low), high |-> Some(high)]

(***************************************************************************)
(* ensureTargetRange(metricData, unit, metricName)                         *)
(***************************************************************************)
ensureTargetRange(metricData, unit, metricName) ==
  LET md == Fields(metricData)
      tr == md.target_range
      fallback == IF unit = "%" THEN PctDefaultMedian
                  ELSE IF metricName = "CPC" THEN CpcDefaultMedian ELSE CplDefaultMedian
      m == IF md.median # None THEN md.median[1]
           ELSE IF md.value # None THEN md.value[1] ELSE fallback
      span == Max(SpanFloor, (m * SpanPct) \div 100)
  IN  IF tr # None /\ tr[1].low # None /\ tr[1].high # None
      THEN tr[1]
      ELSE IF md.p25 # None /\ md.p75 # None
           THEN Range(Max(0, md.p25[1]), Max(md.p75[1], md.p25[1]))
           ELSE Range(Max(0, m - span), m + span)

\* deriveVerdict with the bounds of the range excluded from on_target.
deriveVerdict_ExclusiveBounds(value, targetRange, direction) ==
  IF value = None \/ targetRange.low = None \/ targetRange.high = None
  THEN "unknown"
  ELSE LET v == value[1]
           low == targetRange.low[1]
           high == targetRange.high[1]
       IN  IF v > low /\ v < high THEN "on_target"
           ELSE IF direction = "lower-is-better"
                THEN (IF v < low THEN "exceeds_target" ELSE "outside_target")
                ELSE (IF v > high THEN "exceeds_target" ELSE "outside_target")

\* deriveVerdict testing the direction against a spelling no caller passes,
\* so that every metric is treated as higher-is-better.
deriveVerdict_DirectionIgnored(value, targetRange, direction) ==
  IF value = None \/ targetRange.low = None \/ targetRange.high = None
  THEN "unknown"
  ELSE LET v == value[1]
           low == targetRange.low[1]
           high == targetRange.high[1]
       IN  IF v >= low /\ v <= high THEN "on_target"
           ELSE IF direction = "lower_is_better"
                THEN (IF v < low THEN "exceeds_target" ELSE "outside_target")
                ELSE (IF v > high THEN "exceeds_target" ELSE "outside_target")

(***************************************************************************)
(* deriveVerdict(value, targetRange, direction)                            *)
(***************************************************************************)
deriveVerdict(value, targetRange, direction) ==
  IF value = None \/ targetRange.low = None \/ targetRange.high = None
  THEN "unknown"
  ELSE LET v == value[1]
           low == targetRange.low[1]
           high == targetRange.high[1]
       IN  IF v >= low /\ v <= high THEN "on_target"
           ELSE IF direction = "lower-is-better"
                THEN (IF v < low THEN "exceeds_target" ELSE "outside_target")
                ELSE (IF v > high THEN "exceeds_target" ELSE "outside_target")

(***************************************************************************)
(* deltaPctFromRange(value, targetRange): the percentage                   *)
(* diff / max(bound, 1e-9) * 100, kept as the pair (diff, bound) so that   *)
(* no division is rounded; value is a number here (both callers checked).  *)
(***************************************************************************)
deltaPctFromRange(value, targetRange) ==
  LET low == targetRange.low[1]
      high == targetRange.high[1]
  IN  IF value < low THEN [diff |-> low - value, bound |-> low]
      ELSE IF value > high THEN [diff |-> value - high, bound |-> high]
      ELSE [diff |-> 0, bound |-> 1]

\* delta <= pct, for a delta returned by deltaPctFromRange.  A bound below
\* one tick is floored at 1e-9, that is 1/DivisorFloorPerTick of a tick.
DeltaAtMost(delta, pct) ==
  IF delta.bound >= 1
  THEN delta.diff * 100 <= pct * delta.bound
  ELSE delta.diff <= pct \div (100 * DivisorFloorPerTick)

\* statusFromBench with the boundary excluded (delta < 15 in place of
\* delta <= 15).
statusFromBench_StrictBoundary(metric, metricName, unit, direction) ==
  IF metric = None \/ metric[1].value = None THEN "UNKNOWN"
  ELSE LET tr == ensureTargetRange(metric, unit, metricName)
           verdict == deriveVerdict(metric[1].value, tr, direction)
           delta == deltaPctFromRange(metric[1].value[1], tr)
       IN  IF verdict = "on_target" \/ verdict = "exceeds_target" THEN "GOOD"
           ELSE IF delta.bound >= 1 /\ delta.diff * 100 < WeakDeltaPct * delta.bound
                THEN "AVG" ELSE "WEAK"

(***************************************************************************)
(* statusFromBench(metric, metricName, unit, direction)                    *)
(***************************************************************************)
statusFromBench(metric, metricName, unit, direction) ==
  IF metric = None \/ metric[1].value = None THEN "UNKNOWN"
  ELSE LET tr == ensureTargetRange(metric, unit, metricName)
           verdict == deriveVerdict(metric[1].value, tr, direction)
           delta == deltaPctFromRange(metric[1].value[1], tr)
       IN  IF verdict = "on_target" \/ verdict = "exceeds_target" THEN "GOOD"
           ELSE IF DeltaAtMost(delta, WeakDeltaPct) THEN "AVG" ELSE "WEAK"


(***************************************************************************)
(* The diagnosis card: what createDiagnosisCard writes into el.innerHTML.  *)
(* title names the outcome; numbers holds the figures the message quotes   *)
(* (needed CR / CPC, recommended CPL, realistic range); provisionalInfo is *)
(* the banner placed above the card ("" when the caller passes none).      *)
(***************************************************************************)
NoNumbers == [need |-> None, rec |-> None, rng |-> None]

createDiagnosisCard(title, numbers, kicker, provisionalInfo) ==
  [outcome |-> title, numbers |-> numbers, kicker |-> kicker,
   provisionalInfo |-> provisionalInfo]

NoCard == createDiagnosisCard("none", NoNumbers, FALSE, "")

\* input.x || 0
OrZero(x) == IF x = None THEN 0 ELSE x[1]

\* bm.x?.value as an operand of < or >: undefined (no sample) makes the
\* comparison false, null (a sample without a value) counts as 0.
Comparable(metric) == metric # None
AsNumber(metric) == OrZero(metric[1].value)

(***************************************************************************)
(* Rule 1, line 317: input.clicks || 0 strictly equals 0                   *)
(***************************************************************************)
noTraffic(input) == OrZero(input.clicks) = 0

(***************************************************************************)
(* Rule 2, lines 324-331                                                   *)
(***************************************************************************)
crSuspicious(bm) ==
  LET v == Fields(bm.cr).value
      tr == ensureTargetRange(bm.cr, "%", "CR")
  IN  IF v = None THEN FALSE
      ELSE /\ v[1] * 10 > tr.high[1] * 18
           /\ v[1] > CrSuspiciousFloor

\* Mutant: the click threshold of the zero-leads test read as "more than".
verifyTracking_StrictClicks(input, bm) ==
  \/ input.leads = Some(0) /\ OrZero(input.clicks) > TrackingMinClicks
  \/ crSuspicious(bm)

verifyTracking(input, bm) ==
  \/ input.leads = Some(0) /\ OrZero(input.clicks) >= TrackingMinClicks
  \/ crSuspicious(bm)

\* Rule 3 with the floor moved up to the soft ceiling of line 344.
budgetTooLow_SoftCeiling(input) ==
  input.budget # None /\ input.budget[1] < SoftBudgetCeiling

(***************************************************************************)
(* Rule 3, line 338                                                        *)
(***************************************************************************)
budgetTooLow(input) == input.budget # None /\ input.budget[1] < BudgetFloor

(***************************************************************************)
(* Lines 344-348: the banner of the non-terminal cards.                    *)
(***************************************************************************)
softBudgetBanner(input) ==
  IF input.budget # None /\ input.budget[1] < SoftBudgetCeiling
  THEN "budget_constrained" ELSE ""

provisional(input) ==
  OrZero(input.leads) < ProvisionalLeads \/ OrZero(input.clicks) < ProvisionalClicks

\* provisionalTag without the budget banner.
provisionalTag_NoBudgetBanner(input) ==
  IF provisional(input) THEN "provisional" ELSE ""

provisionalTag(input) ==
  IF provisional(input) THEN "provisional" ELSE softBudgetBanner(input)

(***************************************************************************)
(* Lines 350-354                                                           *)
(***************************************************************************)
cplStatus(bm) == statusFromBench(bm.cpl, "CPL", "$", "lower-is-better")
cpcStatus(bm) == statusFromBench(bm.cpc, "CPC", "$", "lower-is-better")
crStatus(bm) == statusFromBench(bm.cr, "CR", "%", "higher-is-better")

performanceIsGood(bm) ==
  cplStatus(bm) # "WEAK" /\ cpcStatus(bm) # "WEAK" /\ crStatus(bm) # "WEAK"

(***************************************************************************)
(* Lines 373-380.  A needed value is kept symbolically: a target supplied  *)
(* by the caller, the quotient cpc / goal or the product goal * cr.        *)
(***************************************************************************)
needCr(input, bm, targets) ==
  LET t == IF targets = None THEN None ELSE targets[1].target_cr
      cpc == Fields(bm.cpc).value
  IN  IF t # None THEN Some([op |-> "target", a |-> t[1], b |-> 1])
      ELSE IF cpc # None /\ cpc[1] # 0 /\ input.goal_cpl # None /\ input.goal_cpl[1] # 0
           THEN Some([op |-> "quotient", a |-> cpc[1], b |-> input.goal_cpl[1]])
           ELSE None

needCpc(input, bm, targets) ==
  LET t == IF targets = None THEN None ELSE targets[1].target_cpc
      cr == Fields(bm.cr).value
  IN  IF t # None THEN Some([op |-> "target", a |-> t[1], b |-> 1])
      ELSE IF input.goal_cpl # None /\ cr # None
           THEN Some([op |-> "product", a |-> input.goal_cpl[1], b |-> cr[1]])
           ELSE None

cpcExtreme(bm) ==
  /\ Comparable(bm.cpc)
  /\ AsNumber(bm.cpc) * 2 > ensureTargetRange(bm.cpc, "$", "CPC").high[1] * 3

crDeep(bm) ==
  /\ Comparable(bm.cr)
  /\ AsNumber(bm.cr) * 2 < ensureTargetRange(bm.cr, "%", "CR").low[1]

(***************************************************************************)
(* Lines 372-402: the branch taken when overall.goal_status is "behind".   *)
(***************************************************************************)
bottleneckCard(input, ga, bm, targets) ==
  LET kicker == ga.goal_scenario = Some("goal_too_aggressive")
      tag == provisionalTag(input)
  IN  IF crStatus(bm) = "WEAK" /\ cpcStatus(bm) # "WEAK"
      THEN createDiagnosisCard("fix_conversion_rate",
             [NoNumbers EXCEPT !.need = needCr(input, bm, targets)], kicker, tag)
      ELSE IF cpcStatus(bm) = "WEAK" /\ crStatus(bm) # "WEAK"
      THEN createDiagnosisCard("reduce_traffic_cost",
             [NoNumbers EXCEPT !.need = needCpc(input, bm, targets)], kicker, tag)
      ELSE IF cpcExtreme(bm) /\ ~crDeep(bm)
      THEN createDiagnosisCard("fix_cpc_first", NoNumbers, kicker, tag)
      ELSE createDiagnosisCard("fix_cr_first", NoNumbers, kicker, tag)

(***************************************************************************)
(* Lines 356-370: the branch taken when no metric is WEAK.                 *)
(***************************************************************************)
goodPerformanceCard(input, ga, status) ==
  IF status = Some("achieved") \/ status = Some("on_track")
  THEN createDiagnosisCard("ready_to_scale", NoNumbers, FALSE, provisionalTag(input))
  ELSE createDiagnosisCard("realign_goal_expectations",
         [NoNumbers EXCEPT !.rec = ga.recommended_cpl, !.rng = ga.realistic_range],
         FALSE, provisionalTag(input))

(***************************************************************************)
(* renderDiagnosis(d), lines 310-406.  The three terminal cards are built  *)
(* without a provisionalInfo argument.  Line 353 reads ga.goal_scenario,   *)
(* a TypeError when d.goal_analysis is null or undefined.                  *)
(***************************************************************************)
status(data) == IF data.overall = None THEN None ELSE data.overall[1].goal_status

\* Mutant: the budget floor tested before the traffic and tracking rules.
terminalCard_BudgetFirst(data) ==
  IF budgetTooLow(data.input)
  THEN Some(createDiagnosisCard("budget_too_low", NoNumbers, FALSE, ""))
  ELSE IF noTraffic(data.input)
  THEN Some(createDiagnosisCard("no_traffic", NoNumbers, FALSE, ""))
  ELSE IF verifyTracking(data.input, data.benchmarks)
  THEN Some(createDiagnosisCard("verify_tracking", NoNumbers, FALSE, ""))
  ELSE None

terminalCard(data) ==
  IF noTraffic(data.input)
  THEN Some(createDiagnosisCard("no_traffic", NoNumbers, FALSE, ""))
  ELSE IF verifyTracking(data.input, data.benchmarks)
  THEN Some(createDiagnosisCard("verify_tracking", NoNumbers, FALSE, ""))
  ELSE IF budgetTooLow(data.input)
  THEN Some(createDiagnosisCard("budget_too_low", NoNumbers, FALSE, ""))
  ELSE None

throwsTypeError(data) == terminalCard(data) = None /\ data.goal_analysis = None

\* Mutant: the "behind" branch is never entered, so a campaign behind its
\* goal falls through to the default card.
diagnosis_BehindFallsThrough(data) ==
  LET input == data.input
      bm == data.benchmarks
      ga == data.goal_analysis[1]
  IN  IF terminalCard(data) # None THEN terminalCard(data)[1]
      ELSE IF performanceIsGood(bm) THEN goodPerformanceCard(input, ga, status(data))
      ELSE createDiagnosisCard("monitor_performance", NoNumbers, FALSE,
                               provisionalTag(input))

diagnosis(data) ==
  LET input == data.input
      bm == data.benchmarks
      ga == data.goal_analysis[1]
  IN  IF terminalCard(data) # None THEN terminalCard(data)[1]
      ELSE IF performanceIsGood(bm) THEN goodPerformanceCard(input, ga, status(data))
      ELSE IF status(data) = Some("behind")
      THEN bottleneckCard(input, ga, bm, data.targets)
      ELSE createDiagnosisCard("monitor_performance", NoNumbers, FALSE,
                               provisionalTag(input))

renderDiagnosis ==
  /\ pc = "loaded"
  /\ IF throwsTypeError(d)
     THEN pc' = "threw" /\ UNCHANGED diagnosisCard
     ELSE pc' = "rendered" /\ diagnosisCard' = diagnosis(d)
  /\ UNCHANGED <<d, benchVars, verdictVars, waterfallVars, laterVars>>


(***************************************************************************)
(* The responses rendered.  d is the /diagnose response handed to          *)
(* renderDiagnosis: {input, goal_analysis, benchmarks, targets, overall}.  *)
(***************************************************************************)
MaxClickSteps == 6
MaxLeadSteps == 3
MaxBudgetSteps == 4

Dollars(n) == n * TicksPerUnit

ClickValues == {None} \cup {Some(50 * k) : k \in 0..MaxClickSteps}
LeadValues == {None} \cup {Some(5 * k) : k \in 0..MaxLeadSteps}
BudgetValues == {None} \cup {Some(250 * k) : k \in 0..MaxBudgetSteps}
GoalValues == {None, Some(Dollars(80))}

Sample(value, median, p25, p75, target_range) ==
  Some([value |-> value, median |-> median, p25 |-> p25, p75 |-> p75,
        target_range |-> target_range])

\* CPL against the percentiles p25 = $45, p75 = $90 (median $60):
\* no value, $40 exceeds, $60 on target, $103.50 exactly 15% above, $125 weak.
CplSamples ==
  {None} \cup
  { Sample(v, Some(Dollars(60)), Some(Dollars(45)), Some(Dollars(90)), None) :
      v \in {None, Some(Dollars(40)), Some(Dollars(60)), Some(10350000),
             Some(Dollars(125))} }

\* CPC against a median of $3.00 alone (range $2.55-$3.45): no value, $2.00
\* exceeds, $3.00 on target, $3.90 13% above, $4.50 weak, $6.00 weak and
\* above 1.5 x high; and $6.00 with no benchmark at all.
CpcSamples ==
  {None, Sample(Some(Dollars(6)), None, None, None, None)} \cup
  { Sample(v, Some(Dollars(3)), None, None, None) :
      v \in {None, Some(Dollars(2)), Some(Dollars(3)), Some(390000),
             Some(450000), Some(Dollars(6))} }

\* CR against a supplied target_range of 4%-6%: no value, 1% weak and below
\* 0.5 x low, 3% weak, 3.5% 12.5% below, 5% on target, 10% exceeds.
CrTreeSamples ==
  {None} \cup
  { Sample(v, Some(5000), None, None, Some(Range(4000, 6000))) :
      v \in {None, Some(1000), Some(3000), Some(3500), Some(5000),
             Some(10000)} }

\* CR around the tracking threshold max(1.8 x high, 15%): with high = 6%
\* the 15% floor decides (12%, 15%, 20%); with high = 10% the 18% does
\* (16%, 18%, 20%).
CrTrackingSamples ==
  { Sample(Some(v), Some(5000), None, None, Some(Range(4000, 6000))) :
      v \in {12000, 15000, 20000} } \cup
  { Sample(Some(v), None, Some(8000), Some(10000), None) :
      v \in {16000, 18000, 20000} }

GoalAnalysis(scenario) ==
  Some([goal_scenario |-> Some(scenario), recommended_cpl |-> Some(Dollars(60)),
        realistic_range |-> Some(Range(Dollars(45), Dollars(90)))])

EmptyGoalAnalysis ==
  Some([goal_scenario |-> None, recommended_cpl |-> None, realistic_range |-> None])

GoalAnalyses ==
  {None, EmptyGoalAnalysis} \cup
  {GoalAnalysis(s) : s \in {"goal_too_aggressive", "goal_in_range", "goal_conservative"}}

TargetValues ==
  {None, Some([target_cr |-> Some(4000), target_cpc |-> Some(250000)])}

Overall(goal_status) == Some([goal_status |-> goal_status])

OverallValues ==
  {None} \cup
  {Overall(Some(s)) : s \in {"achieved", "on_track", "behind", "at_risk"}}

Responses(inputs, cpls, cpcs, crs, gas, targetss, overalls) ==
  [input : inputs, benchmarks : [cpl : cpls, cpc : cpcs, cr : crs],
   goal_analysis : gas, targets : targetss, overall : overalls]

\* Every volume input against every CR sample, goal status and a few of the
\* rest.
VolumeCases ==
  Responses([budget : BudgetValues, clicks : ClickValues, leads : LeadValues,
             goal_cpl : {None}],
            {None, Sample(Some(Dollars(125)), Some(Dollars(60)), None, None, None)},
            {None, Sample(Some(Dollars(6)), Some(Dollars(3)), None, None, None)},
            CrTreeSamples \cup CrTrackingSamples,
            {None, GoalAnalysis("goal_in_range"), GoalAnalysis("goal_too_aggressive")},
            {None},
            OverallValues)

\* Every metric sample, goal analysis, target and goal status against the
\* inputs that pass the volume rules.
MetricCases ==
  Responses([budget : {None, Some(750), Some(1000)}, clicks : {Some(300)},
             leads : {Some(15)}, goal_cpl : GoalValues],
            CplSamples, CpcSamples, CrTreeSamples,
            GoalAnalyses, TargetValues, OverallValues)

\* The other parts of the page are idle while a diagnosis is rendered.
BenchIdle == benchMetric = None /\ bench = None
VerdictIdle == probe = None /\ probeVerdict = None
WaterfallIdle == cfg = None /\ waterfall = None
ScenarioIdle ==
  /\ sbInput = None /\ sbClosure = None /\ sbState = None /\ sbView = None
  /\ sbEvent = None
SessionIdle ==
  /\ authToken = None /\ currentUser = None /\ storedToken = None
  /\ authCalls = << >>
TrajectoryIdle ==
  /\ trajectoryCache = << >> /\ trajectoryCalls = << >> /\ trajectoryLog = None
PartnerIdle == partnerCard = None /\ partnerCalls = << >>
LaterIdle == ScenarioIdle /\ SessionIdle /\ TrajectoryIdle /\ PartnerIdle

Init ==
  /\ d \in VolumeCases \cup MetricCases
  /\ diagnosisCard = NoCard
  /\ pc = "loaded"
  /\ BenchIdle /\ VerdictIdle /\ WaterfallIdle /\ LaterIdle

Next == renderDiagnosis

Spec == Init /\ [][Next]_vars


(***************************************************************************)
(* Properties of the diagnosis.                                            *)
(***************************************************************************)
Finished == pc # "loaded"

\* The result of the call: the outcome of the card written, or the error
\* raised.
Outcome ==
  IF pc = "rendered" THEN diagnosisCard.outcome
  ELSE IF pc = "threw" THEN "TypeError" ELSE "pending"

Outcomes ==
  {"no_traffic", "verify_tracking", "budget_too_low", "ready_to_scale",
   "realign_goal_expectations", "fix_conversion_rate", "reduce_traffic_cost",
   "fix_cpc_first", "fix_cr_first", "monitor_performance"}

\* The three terminal rules as section 4.4 states them, over the raw input.
\* clicks == 0 is false of a missing clicks value.
StatedNoTraffic(data) == data.input.clicks = Some(0)

StatedCrTooHigh(data) ==
  LET cr == data.benchmarks.cr
  IN  /\ cr # None
      /\ cr[1].value # None
      /\ LET high == ensureTargetRange(cr, "%", "CR").high[1]
         IN  cr[1].value[1] * 10 > Max(high * 18, CrSuspiciousFloor * 10)

StatedTrackingFault(data) ==
  \/ /\ data.input.leads = Some(0)
     /\ data.input.clicks # None
     /\ data.input.clicks[1] >= 100
  \/ StatedCrTooHigh(data)

StatedBudgetFloor(data) ==
  data.input.budget # None /\ data.input.budget[1] < 500

StatedTerminal(data) ==
  StatedNoTraffic(data) \/ StatedTrackingFault(data) \/ StatedBudgetFloor(data)

\* C1: whenever clicks is 0 the outcome is no_traffic, whatever leads,
\* budget, goal_cpl, the metric samples, the goal analysis and the goal
\* status are.
C1_NoTrafficDominates ==
  (Finished /\ d.input.clicks = Some(0)) => Outcome = "no_traffic"

\* C1 witness: zero clicks on an input that the later rules would also
\* match (zero leads, budget under 500, a 20% conversion rate) and that has
\* no goal analysis.
C1_Witness ==
  /\ Outcome = "no_traffic"
  /\ d.input.clicks = Some(0)
  /\ d.input.leads = Some(0)
  /\ d.input.budget = Some(250)
  /\ StatedCrTooHigh(d)
  /\ d.goal_analysis = None

\* C2: with clicks present and non-zero, the outcome is verify_tracking
\* exactly when (leads = 0 and clicks >= 100) or the conversion rate exceeds
\* max(1.8 x range high, 0.15); so leads = 0 with clicks = 150 is
\* verify_tracking whatever the budget, the metrics and the goal status.
C2_VerifyTrackingExactly ==
  (Finished /\ d.input.clicks # None /\ d.input.clicks # Some(0))
    => (Outcome = "verify_tracking" <=> StatedTrackingFault(d))

\* C2 witness: leads = 0, clicks = 150 and a budget under 500, with a weak
\* CPL sample and an unsuspicious conversion rate, rendered as
\* verify_tracking.
C2_Witness ==
  /\ Outcome = "verify_tracking"
  /\ d.input.leads = Some(0)
  /\ d.input.clicks = Some(150)
  /\ d.input.budget = Some(250)
  /\ ~StatedCrTooHigh(d)
  /\ cplStatus(d.benchmarks) = "WEAK"

\* C3: budget_too_low is the outcome exactly when neither no-traffic
\* (clicks == 0) nor tracking integrity matches and budget is present and
\* below 500.
C3_BudgetTooLowExactly ==
  Finished =>
    (Outcome = "budget_too_low"
       <=> (~StatedNoTraffic(d) /\ ~StatedTrackingFault(d) /\ StatedBudgetFloor(d)))

\* C4: the diagnosis completes with exactly one of the ten outcomes and
\* raises no error, whichever optional part of the input is missing.
C4_TotalNeverThrows == Finished => Outcome \in Outcomes

\* C5: a missing clicks value is not treated as zero: no_traffic is
\* produced only when clicks is present and equal to 0.
C5_MissingClicksNotZero ==
  (Finished /\ Outcome = "no_traffic") => d.input.clicks = Some(0)


\* The metric statuses and the goal status the tree branches on.
CplWeak(data) == cplStatus(data.benchmarks) = "WEAK"
CpcWeak(data) == cpcStatus(data.benchmarks) = "WEAK"
CrWeak(data) == crStatus(data.benchmarks) = "WEAK"
SomeWeak(data) == CplWeak(data) \/ CpcWeak(data) \/ CrWeak(data)
GoalStatusIn(data, names) == \E n \in names : status(data) = Some(n)

\* The magnitude tie-break of section 4.4, for two weak metrics (both values
\* are then present): CPC above 1.5 x its range high and CR not below
\* 0.5 x its range low.
StatedCpcFirst(data) ==
  LET cpc == data.benchmarks.cpc
      cr == data.benchmarks.cr
  IN  /\ cpc[1].value[1] * 2 > ensureTargetRange(cpc, "$", "CPC").high[1] * 3
      /\ ~(cr[1].value[1] * 2 < ensureTargetRange(cr, "%", "CR").low[1])

StatedBottleneck(data) ==
  IF CrWeak(data) /\ ~CpcWeak(data) THEN {"fix_conversion_rate"}
  ELSE IF CpcWeak(data) /\ ~CrWeak(data) THEN {"reduce_traffic_cost"}
  ELSE IF CpcWeak(data) /\ CrWeak(data)
  THEN (IF StatedCpcFirst(data) THEN {"fix_cpc_first"} ELSE {"fix_cr_first"})
  ELSE Outcomes

\* C6: when rules 1-3 do not match, some metric is WEAK and the goal status
\* is behind, the outcome is fix_conversion_rate (CR weak, CPC not),
\* reduce_traffic_cost (CPC weak, CR not), and for both weak fix_cpc_first
\* iff CPC exceeds 1.5 x range high and CR is not below 0.5 x range low,
\* fix_cr_first otherwise.
C6_BottleneckSelection ==
  (Finished /\ ~StatedTerminal(d) /\ SomeWeak(d) /\ GoalStatusIn(d, {"behind"}))
    => Outcome \in StatedBottleneck(d)

\* C7: fix_cpc_first and fix_cr_first are selected only when both the
\* cost-per-click status and the conversion-rate status are WEAK.
C7_BothLeversOnlyWhenBothWeak ==
  (Finished /\ Outcome \in {"fix_cpc_first", "fix_cr_first"})
    => (CpcWeak(d) /\ CrWeak(d))

\* C8 as stated: monitor_performance is selected only when some metric is
\* WEAK and the goal status is none of achieved, on_track and behind.
C8_MonitorOnlyOtherStatus ==
  (Finished /\ Outcome = "monitor_performance")
    => (SomeWeak(d) /\ ~GoalStatusIn(d, {"achieved", "on_track", "behind"}))

\* C8 amended: monitor_performance is selected only when some metric is WEAK
\* and the goal status is not behind; a goal status of achieved or on_track
\* does not exclude it.
C8_MonitorUnlessBehind ==
  (Finished /\ Outcome = "monitor_performance")
    => (SomeWeak(d) /\ ~GoalStatusIn(d, {"behind"}))

\* C8 witness: a weak CPL alone with goal status achieved, rendered as
\* monitor_performance.
C8_Witness ==
  /\ Outcome = "monitor_performance"
  /\ GoalStatusIn(d, {"achieved"})
  /\ CplWeak(d) /\ ~CpcWeak(d) /\ ~CrWeak(d)

\* C9: when rules 1-3 do not match, the outcome is ready_to_scale exactly
\* when no metric status is WEAK (a metric without a value is not WEAK) and
\* the goal status is achieved or on_track.
C9_ReadyToScaleExactly ==
  (Finished /\ ~StatedTerminal(d))
    => (Outcome = "ready_to_scale"
          <=> (~SomeWeak(d) /\ GoalStatusIn(d, {"achieved", "on_track"})))

\* C10: realign_goal_expectations is selected only when no metric is WEAK,
\* the goal status is not achieved or on_track and the goal scenario is not
\* goal_in_range; the card then carries the recommended CPL and the
\* realistic range.
C10_RealignOnlyGoalOutsideRange ==
  (Finished /\ Outcome = "realign_goal_expectations")
    => /\ ~SomeWeak(d)
       /\ ~GoalStatusIn(d, {"achieved", "on_track"})
       /\ d.goal_analysis[1].goal_scenario # Some("goal_in_range")
       /\ diagnosisCard.numbers.rec = d.goal_analysis[1].recommended_cpl
       /\ diagnosisCard.numbers.rng = d.goal_analysis[1].realistic_range

(***************************************************************************)
(* Benchmarking one metric.  For each metric of a response the page        *)
(* resolves the target range, derives the verdict (linesFor, and the same  *)
(* two calls in renderVerdictBenchmark) and grades the metric with         *)
(* statusFromBench.  benchMetric is <<[name, unit, direction, sample]>>;   *)
(* bench records the three results.                                        *)
(***************************************************************************)
benchmarkMetric ==
  /\ benchMetric # None
  /\ bench = None
  /\ LET m == benchMetric[1]
         tr == ensureTargetRange(Some(m.sample), m.unit, m.name)
     IN  bench' = Some([range |-> tr,
                        verdict |-> deriveVerdict(m.sample.value, tr, m.direction),
                        status |-> statusFromBench(Some(m.sample), m.name, m.unit,
                                                   m.direction)])
  /\ UNCHANGED <<benchMetric, diagnosisVars, verdictVars, waterfallVars,
               laterVars>>

\* The three metrics as the page passes them (lines 350-352, 575-577).
MetricKinds ==
  { [name |-> "CPL", unit |-> "$", direction |-> "lower-is-better"],
    [name |-> "CPC", unit |-> "$", direction |-> "lower-is-better"],
    [name |-> "CR", unit |-> "%", direction |-> "higher-is-better"] }

\* Sample numbers on the scale of the metric: whole dollars for CPL and
\* CPC, thousandths (tenths of a percentage point) for CR.  On these
\* scales the double arithmetic of the source is exact at the boundary the
\* metric can be graded on (69 against 60 above the range for the costs,
\* 0.034 against 0.040 below it for the rate).
Scaled(n, unit) == IF unit = "%" THEN n * 100 ELSE n * TicksPerUnit

MaxBenchSteps == 8

\* A coarse grid and the values next to the 15% boundaries of the range
\* 40-60 (34 is exactly 15% below 40, 69 exactly 15% above 60).
BenchValues(unit) ==
  {None} \cup {Some(Scaled(10 * k, unit)) : k \in 0..MaxBenchSteps}
         \cup {Some(Scaled(33, unit)), Some(Scaled(34, unit)),
               Some(Scaled(69, unit))}

\* Caller-supplied target ranges: none, in order, out of order, one bound
\* missing, and the degenerate range 0-0.
BenchTargetRanges(unit) ==
  {None, Some(Range(Scaled(40, unit), Scaled(60, unit))),
   Some(Range(Scaled(60, unit), Scaled(40, unit))),
   Some([low |-> Some(Scaled(40, unit)), high |-> None]), Some(Range(0, 0))}

BenchSamples(unit) ==
  [value : BenchValues(unit),
   median : {None, Some(0), Some(Scaled(50, unit))},
   p25 : {None, Some(Scaled(40, unit)), Some(Scaled(60, unit))},
   p75 : {None, Some(Scaled(40, unit)), Some(Scaled(60, unit))},
   target_range : BenchTargetRanges(unit)]

DiagnosisIdle == d = None /\ diagnosisCard = NoCard /\ pc = "idle"

InitBench ==
  /\ benchMetric \in UNION { {Some([name |-> k.name, unit |-> k.unit,
                                    direction |-> k.direction, sample |-> s]) :
                                 s \in BenchSamples(k.unit)} : k \in MetricKinds }
  /\ bench = None
  /\ DiagnosisIdle /\ VerdictIdle /\ WaterfallIdle /\ LaterIdle

NextBench == benchmarkMetric

SpecBench == InitBench /\ [][NextBench]_vars


(***************************************************************************)
(* Properties of the metric status.                                        *)
(***************************************************************************)
\* The deviation of section 4.3 is strictly above 15%: the distance from
\* the crossed bound, over that bound floored at 1e-9 (any distance from a
\* bound of zero is then far above 15%); no deviation inside the range.
StatedOver15(dist, bound) ==
  IF bound >= 1 THEN dist * 100 > 15 * bound ELSE dist >= 1

StatedDeviationOver15(v, range) ==
  LET low == range.low[1]
      high == range.high[1]
  IN  IF v < low THEN StatedOver15(low - v, low)
      ELSE IF v > high THEN StatedOver15(v - high, high)
      ELSE FALSE

\* C11: a metric with a present value is GOOD iff its verdict against the
\* resolved range is on_target or exceeds_target; otherwise it is WEAK iff
\* its deviation is strictly greater than 15 and AVG when it is at most 15.
C11_StatusFromVerdictAndDeviation ==
  (bench # None /\ benchMetric[1].sample.value # None) =>
    LET b == bench[1]
        over == StatedDeviationOver15(benchMetric[1].sample.value[1], b.range)
    IN  /\ (b.status = "GOOD") <=> (b.verdict \in {"on_target", "exceeds_target"})
        /\ (b.status # "GOOD") =>
              /\ (b.status = "WEAK") <=> over
              /\ (b.status = "AVG") <=> ~over

\* A CPL exactly 15% above the upper bound ($69 against $40-$60) was graded
\* AVG.
C11_Witness ==
  /\ bench # None
  /\ benchMetric[1].name = "CPL"
  /\ benchMetric[1].sample.value = Some(Dollars(69))
  /\ bench[1].range = Range(Dollars(40), Dollars(60))
  /\ bench[1].verdict = "outside_target"
  /\ bench[1].status = "AVG"

(***************************************************************************)
(* Properties of the annotation of the diagnosis card.                     *)
(***************************************************************************)
TerminalOutcomes == {"no_traffic", "verify_tracking", "budget_too_low"}

Annotation == diagnosisCard.provisionalInfo

\* The conditions of the low-volume guard of section 4.4, over the values
\* that are present.
StatedLowVolume(data) ==
  \/ data.input.leads # None /\ data.input.leads[1] < 15
  \/ data.input.clicks # None /\ data.input.clicks[1] < 300

StatedSoftBudget(data) ==
  data.input.budget # None /\ data.input.budget[1] >= 500
                           /\ data.input.budget[1] < 1000

OutcomeOf(data) ==
  IF throwsTypeError(data) THEN "TypeError" ELSE diagnosis(data).outcome

WithBudget(data, b) == [data EXCEPT !.input.budget = b]

OtherBudgets == {b \in BudgetValues : b # None /\ b[1] >= 500}

SameOutcomeForOtherBudgets ==
  \A b \in OtherBudgets : Outcome = OutcomeOf(WithBudget(d, b))

deriveVerdictCall ==
  /\ probe # None
  /\ probeVerdict = None
  /\ probeVerdict' = Some(deriveVerdict(probe[1].value, probe[1].range,
                                        probe[1].direction))
  /\ UNCHANGED <<probe, diagnosisVars, benchVars, waterfallVars, laterVars>>

MaxProbeValue == 5

ProbeNumbers == 0..MaxProbeValue

ProbeValues == {None} \cup {Some(n) : n \in ProbeNumbers}

Directions == {"lower-is-better", "higher-is-better"}

InitVerdict ==
  /\ probe \in {Some([value |-> v, range |-> [low |-> lo, high |-> hi],
                       direction |-> dir]) :
                   v \in ProbeValues, lo \in ProbeValues, hi \in ProbeValues,
                   dir \in Directions}
  /\ probeVerdict = None
  /\ DiagnosisIdle /\ BenchIdle /\ WaterfallIdle /\ LaterIdle

NextVerdict == deriveVerdictCall

SpecVerdict == InitVerdict /\ [][NextVerdict]_vars


(***************************************************************************)
(* Properties of the verdict.                                              *)
(***************************************************************************)
ProbeMissing ==
  probe[1].value = None \/ probe[1].range.low = None \/ probe[1].range.high = None

\* C14: the verdict is unknown iff the value or either bound is missing;
\* otherwise on_target iff low <= value <= high, bounds included, for both
\* directions; otherwise, on a range with low <= high, lower-is-better
\* gives exceeds_target below low and outside_target above high, and
\* higher-is-better gives exceeds_target above high and outside_target
\* below low.
C14_VerdictByRange ==
  probeVerdict # None =>
    /\ (probeVerdict[1] = "unknown") <=> ProbeMissing
    /\ ~ProbeMissing =>
         LET v == probe[1].value[1]
             low == probe[1].range.low[1]
             high == probe[1].range.high[1]
             r == probeVerdict[1]
         IN  /\ (r = "on_target") <=> (low <= v /\ v <= high)
             /\ (low <= high /\ probe[1].direction = "lower-is-better") =>
                  /\ v < low => r = "exceeds_target"
                  /\ v > high => r = "outside_target"
             /\ (low <= high /\ probe[1].direction = "higher-is-better") =>
                  /\ v > high => r = "exceeds_target"
                  /\ v < low => r = "outside_target"

\* A value on the upper bound of a proper range was classified on_target.
C14_Witness ==
  /\ probeVerdict = Some("on_target")
  /\ probe[1].value = probe[1].range.high
  /\ probe[1].range.low[1] < probe[1].range.high[1]

\* w lies further in the bad direction than v.
Worse(w, v, direction) ==
  IF direction = "lower-is-better" THEN w > v ELSE w < v

\* C15: for a fixed range and direction, if a value is outside_target then
\* every value further in the bad direction (greater for lower-is-better,
\* smaller for higher-is-better) is outside_target too.
C15_OutsideIsMonotonic ==
  probeVerdict = Some("outside_target") =>
    \A w \in ProbeNumbers :
      Worse(w, probe[1].value[1], probe[1].direction) =>
        deriveVerdict(Some(w), probe[1].range, probe[1].direction)
          = "outside_target"

\* A lower-is-better value above a proper range was classified
\* outside_target, with a worse value left to compare it with.
C15_Witness ==
  /\ probeVerdict = Some("outside_target")
  /\ probe[1].direction = "lower-is-better"
  /\ probe[1].range.low[1] < probe[1].range.high[1]
  /\ probe[1].value[1] > probe[1].range.high[1]
  /\ probe[1].value[1] < MaxProbeValue

\* C16: for every sample, with any combination of present or missing
\* target_range, median, value, p25 and p75 and for each unit and metric,
\* the resolved range satisfies 0 <= low <= high, including when the
\* caller-supplied target_range or percentiles are out of order.
C16_ResolvedRangeOrdered ==
  bench # None =>
    /\ bench[1].range.low # None /\ bench[1].range.high # None
    /\ 0 <= bench[1].range.low[1]
    /\ bench[1].range.low[1] <= bench[1].range.high[1]

(***************************************************************************)
(* The churn-risk waterfall of risk_waterfall.js.                          *)
(*                                                                         *)
(* Numbers.  Percentage points are integers counting halves of a point     *)
(* (PerPoint to the point), so that total_pct and baseline_pp can carry    *)
(* a fraction that Math.round has to decide (x.5) and every sum of the     *)
(* source is exact in double arithmetic.                                   *)
(*                                                                         *)
(* cfg is <<[total_pct, baseline_pp, drivers, cap_to, reconcile]>>; the    *)
(* three numbers and reconcile may be missing (None), a driver is          *)
(* [pp, type] with type possibly missing.                                  *)
(***************************************************************************)
PerPoint == 2
DefaultCapTo == 100

Min(a, b) == IF a <= b THEN a ELSE b
Abs(a) == IF a >= 0 THEN a ELSE -a

\* Math.round of n / PerPoint: the nearest whole point, halves going up.
Round(n) == (2 * n + PerPoint) \div (2 * PerPoint)

\* Line 4: cap = n => Math.max(0, Math.min(cfg.cap_to ?? 100, Number(n) || 0))
capTo(c) == IF c.cap_to = None THEN DefaultCapTo * PerPoint ELSE c.cap_to[1]

\* cap without the floor at 0.
cap_NoFloor(c, n) == Min(capTo(c), n)

cap(c, n) == Max(0, Min(capTo(c), n))

\* Line 5
totalTarget(c) == cap(c, OrZero(c.total_pct))

\* Lines 41-44 with the explicit type of the driver taking precedence over
\* the sign of its pp.
stepClass_ExplicitTypeWins(dr) ==
  IF dr.type \in {Some("controllable"), Some("protective"), Some("structural")}
  THEN dr.type[1]
  ELSE IF dr.pp < 0 THEN "protective"
  ELSE IF dr.type = Some("residual") THEN "residual"
  ELSE "structural"

\* Lines 41-44
stepClass(dr) ==
  IF dr.type = Some("controllable") THEN "controllable"
  ELSE IF dr.type = Some("protective") \/ dr.pp < 0 THEN "protective"
  ELSE IF dr.type = Some("residual") THEN "residual"
  ELSE "structural"

\* Lines 34-49: the bar of one driver, drawn from the running cumulative.
\* start and next are the locals of the loop body; left, width, cls and pp
\* are what the bar shows.
driverStep(c, dr, cumulative) ==
  LET start == cumulative
      next == cap(c, cumulative + dr.pp)
  IN  [label |-> "Driver", cls |-> stepClass(dr), pp |-> dr.pp,
       left |-> Min(start, next), width |-> Abs(next - start),
       start |-> start, next |-> next]

\* Lines 33-67: forEach over cfg.drivers, in input order.
RECURSIVE driverSteps(_, _, _)
driverSteps(c, drivers, cumulative) ==
  IF drivers = << >> THEN << >>
  ELSE LET step == driverStep(c, Head(drivers), cumulative)
       IN  <<step>> \o driverSteps(c, Tail(drivers), step.next)

\* Line 70: Boolean(cfg.reconcile), false when the key is absent.
allowResidual_DefaultTrue(c) == c.reconcile # Some(FALSE)

allowResidual(c) == c.reconcile = Some(TRUE)

\* Line 71, in whole points.
residualDiff(c, cumulative) == Round(totalTarget(c) - cumulative)

\* Lines 69-83 with the residual never drawn.
residualSteps_Never(c, cumulative) == << >>

\* Lines 69-83: the bar "Other modeled factors", if one is drawn.
residualSteps(c, cumulative) ==
  LET diff == residualDiff(c, cumulative)
      start == cumulative
      next == cap(c, cumulative + diff * PerPoint)
  IN  IF allowResidual(c) /\ Abs(diff) >= 1
      THEN << [label |-> "Other modeled factors", cls |-> "residual",
               pp |-> diff * PerPoint,
               left |-> Min(start, next), width |-> Abs(next - start),
               start |-> start, next |-> next] >>
      ELSE << >>

LastNext(steps, cumulative) ==
  IF steps = << >> THEN cumulative ELSE steps[Len(steps)].next

\* What renderChurnWaterfall(root, cfg) draws: the baseline bar (line 28),
\* the bars of the drivers and of the residual, and the footer value
\* (line 90).
churnWaterfall(c) ==
  LET base == cap(c, OrZero(c.baseline_pp))
      dsteps == driverSteps(c, c.drivers, base)
      afterDrivers == LastNext(dsteps, base)
      rsteps == residualSteps(c, afterDrivers)
  IN  [base |-> base, steps |-> dsteps \o rsteps,
       val |-> LastNext(rsteps, afterDrivers)]

renderChurnWaterfall ==
  /\ cfg # None
  /\ waterfall = None
  /\ waterfall' = Some(churnWaterfall(cfg[1]))
  /\ UNCHANGED <<cfg, diagnosisVars, benchVars, verdictVars, laterVars>>

\* Whole points.
Pts(n) == n * PerPoint

MaxDrivers == 2

\* Contributions that stay inside the bar and contributions that run into
\* its two ends; types as the caller may give them, or none.
DriverValues ==
  [pp : {Pts(-30), Pts(10), Pts(15), Pts(90)},
   type : {None, Some("controllable"), Some("structural"), Some("protective"),
           Some("residual")}]

DriverLists == UNION { [1..n -> DriverValues] : n \in 0..MaxDrivers }

\* total_pct: missing, 40, 40.5 and a total above every cap.
\* baseline_pp: missing, 20, 20.5 and a baseline above every cap.
Configs ==
  [total_pct : {None, Some(Pts(40)), Some(Pts(40) + 1), Some(Pts(120))},
   baseline_pp : {None, Some(Pts(20)), Some(Pts(20) + 1), Some(Pts(110))},
   drivers : DriverLists,
   cap_to : {None, Some(Pts(50))},
   reconcile : {None, Some(TRUE), Some(FALSE)}]

InitWaterfall ==
  /\ cfg \in {Some(c) : c \in Configs}
  /\ waterfall = None
  /\ DiagnosisIdle /\ BenchIdle /\ VerdictIdle /\ LaterIdle

NextWaterfall == renderChurnWaterfall

SpecWaterfall == InitWaterfall /\ [][NextWaterfall]_vars

(***************************************************************************)
(* Properties of the waterfall.                                            *)
(***************************************************************************)
Drawn == waterfall # None

\* The inputs as section 4.6 reads them.
StatedCapTo == IF cfg[1].cap_to = None THEN Pts(100) ELSE cfg[1].cap_to[1]

StatedCap(n) == IF n < 0 THEN 0 ELSE IF n > StatedCapTo THEN StatedCapTo ELSE n

StatedTotal == IF cfg[1].total_pct = None THEN 0 ELSE cfg[1].total_pct[1]

NumDrivers == Len(cfg[1].drivers)

\* The cumulative in front of bar i, and the one behind the last driver.
CumulativeBefore(i) ==
  IF i = 1 THEN waterfall[1].base ELSE waterfall[1].steps[i - 1].next

AfterDrivers == CumulativeBefore(NumDrivers + 1)

ResidualAppended == Len(waterfall[1].steps) = NumDrivers + 1

\* C17: with reconcile == true, for any baseline, drivers and total_pct,
\* a total above cap_to included, the final cumulative is less than one
\* point away from total_pct.
C17_ReconciledToTotal ==
  (Drawn /\ cfg[1].reconcile = Some(TRUE)) =>
    Abs(waterfall[1].val - StatedTotal) < Pts(1)

\* C17 as the code has it: with reconcile == true the final cumulative is
\* less than one point away from total_pct capped to [0, cap_to], hence
\* from total_pct itself whenever 0 <= total_pct <= cap_to.
C17_ReconciledToCappedTotal ==
  (Drawn /\ cfg[1].reconcile = Some(TRUE)) =>
    Abs(waterfall[1].val - StatedCap(StatedTotal)) < Pts(1)

\* A reconciled waterfall whose drivers ran into the cap and whose residual
\* brought the cumulative back to a total of 40.5 within half a point.
C17_Witness ==
  /\ Drawn /\ cfg[1].reconcile = Some(TRUE)
  /\ cfg[1].total_pct = Some(Pts(40) + 1)
  /\ NumDrivers >= 1 /\ AfterDrivers = StatedCapTo
  /\ ResidualAppended
  /\ waterfall[1].val \in {Pts(40), Pts(41)}

\* The signed points of the residual as the claim computes them, from
\* total_pct itself, and as the code does, from the capped total.
StatedResidual == Round(StatedTotal - AfterDrivers)
CappedResidual == Round(StatedCap(StatedTotal) - AfterDrivers)

\* The rest of C18 for a residual of the given points.
ResidualIs(points) ==
  /\ ResidualAppended <=> (cfg[1].reconcile = Some(TRUE) /\ Abs(points) >= 1)
  /\ Len(waterfall[1].steps) \in {NumDrivers, NumDrivers + 1}
  /\ ResidualAppended =>
       LET r == waterfall[1].steps[NumDrivers + 1]
       IN  /\ r.label = "Other modeled factors" /\ r.cls = "residual"
           /\ r.pp = Pts(points)
           /\ r.start = AfterDrivers
           /\ r.next = StatedCap(AfterDrivers + Pts(points))
           /\ waterfall[1].val = r.next
  /\ ~ResidualAppended => waterfall[1].val = AfterDrivers

\* C18: a residual driver is appended iff reconcile == true and
\* |round(total_pct - cumulative)| >= 1 after all input drivers; it is then
\* the single, last driver, carries exactly round(total_pct - cumulative)
\* signed points and updates the cumulative; with reconcile false no
\* residual is appended and the final cumulative is the uncorrected value.
C18_ResidualFromTotal == Drawn => ResidualIs(StatedResidual)

\* C18 as the code has it: the same with the total capped to [0, cap_to]
\* before the difference is taken.
C18_ResidualFromCappedTotal == Drawn => ResidualIs(CappedResidual)

\* The example of section 4.6: baseline 20, drivers +15 and +10, total 40
\* give a residual of -5 and a final cumulative of 40.
C18_Witness ==
  /\ Drawn /\ cfg[1].reconcile = Some(TRUE)
  /\ cfg[1].baseline_pp = Some(Pts(20)) /\ cfg[1].total_pct = Some(Pts(40))
  /\ cfg[1].cap_to = None
  /\ NumDrivers = 2
  /\ cfg[1].drivers[1].pp = Pts(15) /\ cfg[1].drivers[2].pp = Pts(10)
  /\ ResidualAppended
  /\ waterfall[1].steps[3].pp = Pts(-5)
  /\ waterfall[1].val = Pts(40)

StatedBaseline ==
  IF cfg[1].baseline_pp = None THEN 0 ELSE cfg[1].baseline_pp[1]

InBar(n) == 0 <= n /\ n <= StatedCapTo

\* C19: the cumulative starts at baseline_pp capped to [0, cap_to]; the
\* drivers are applied in input order with next = cap(cumulative + pp), so
\* the cumulative lies in [0, cap_to] after the baseline and after every
\* driver; each span is [min(prev, next), max(prev, next)], lies in
\* [0, cap_to], starts or ends at the previous cumulative and is never
\* wider than |pp|.
C19_CumulativeAndSpans ==
  Drawn =>
    /\ waterfall[1].base = StatedCap(StatedBaseline)
    /\ InBar(waterfall[1].base)
    /\ Len(waterfall[1].steps) >= NumDrivers
    /\ \A i \in 1..NumDrivers :
         LET step == waterfall[1].steps[i]
             prev == CumulativeBefore(i)
             pp == cfg[1].drivers[i].pp
             right == step.left + step.width
         IN  /\ step.next = StatedCap(prev + pp)
             /\ InBar(step.next)
             /\ step.left = Min(prev, step.next)
             /\ right = Max(prev, step.next)
             /\ InBar(step.left) /\ InBar(right)
             /\ step.left = prev \/ right = prev
             /\ step.width <= Abs(pp)

\* A driver of -30 points drawn from a cumulative of 20: the cumulative
\* stops at 0 and the span, 20 points wide, ends at the previous
\* cumulative.
C19_Witness ==
  /\ Drawn /\ NumDrivers >= 1
  /\ waterfall[1].base = Pts(20)
  /\ cfg[1].drivers[1].pp = Pts(-30)
  /\ waterfall[1].steps[1].next = 0
  /\ waterfall[1].steps[1].left = 0
  /\ waterfall[1].steps[1].width = Pts(20)

ExplicitTypes == {Some("controllable"), Some("structural"), Some("protective")}

\* C20: a driver whose type the caller gives (controllable, structural or
\* protective) is classified with that type whatever the sign of its pp;
\* only a driver without a type is classified protective when pp < 0;
\* residual is used only for the synthetic reconciliation driver.
C20_ExplicitTypeKept ==
  Drawn =>
    \A i \in 1..NumDrivers :
      LET dr == cfg[1].drivers[i]
          cls == waterfall[1].steps[i].cls
      IN  /\ dr.type \in ExplicitTypes => cls = dr.type[1]
          /\ (dr.type = None /\ dr.pp < 0) => cls = "protective"
          /\ (cls = "protective" /\ dr.type # Some("protective")) =>
                (dr.type = None /\ dr.pp < 0)
          /\ cls # "residual"

\* C20 as the code has it: a driver typed controllable is classified
\* controllable whatever the sign of its pp; any other driver with pp < 0,
\* one typed structural or residual included, is classified protective;
\* with pp >= 0 a driver typed protective or residual keeps that type and
\* every other driver is structural.  The synthetic driver is residual.
C20_SignOverridesUnlessControllable ==
  Drawn =>
    /\ \A i \in 1..NumDrivers :
         LET dr == cfg[1].drivers[i]
             cls == waterfall[1].steps[i].cls
         IN  /\ dr.type = Some("controllable") => cls = "controllable"
             /\ (dr.type # Some("controllable") /\ dr.pp < 0) => cls = "protective"
             /\ (dr.type \in {Some("protective"), Some("residual")} /\ dr.pp >= 0)
                  => cls = dr.type[1]
             /\ (dr.type \in {None, Some("structural")} /\ dr.pp >= 0)
                  => cls = "structural"
    /\ ResidualAppended => waterfall[1].steps[NumDrivers + 1].cls = "residual"

\* A driver typed structural with a negative pp was drawn as protective,
\* next to one typed controllable with a negative pp that stayed
\* controllable.
C20_Witness ==
  /\ Drawn /\ NumDrivers = 2
  /\ cfg[1].drivers[1] = [pp |-> Pts(-30), type |-> Some("structural")]
  /\ waterfall[1].steps[1].cls = "protective"
  /\ cfg[1].drivers[2] = [pp |-> Pts(-30), type |-> Some("controllable")]
  /\ waterfall[1].steps[2].cls = "controllable"

(***************************************************************************)
(* The scenario builder of renderScenarioBuilder (part_002, 408-544).      *)
(*                                                                         *)
(* Numbers.  budget, cpc, cr, the goal, the bounds and the derived values  *)
(* are exact rationals [n, d] in lowest terms with d > 0: the solvers      *)
(* divide and multiply state values, and a claim about cpc / cr being      *)
(* equal to the goal is decided by the quotient itself, not by a rounded   *)
(* one.  A quotient by zero keeps d = 0: it stands for the Infinity or NaN *)
(* that JavaScript yields.                                                 *)
(***************************************************************************)
RECURSIVE GCD(_, _)
GCD(a, b) == IF b = 0 THEN a ELSE GCD(b, a % b)

Rat(num, den) ==
  LET g == GCD(Abs(num), den) IN [n |-> num \div g, d |-> den \div g]

Whole(num) == [n |-> num, d |-> 1]

RMul(a, b) == Rat(a.n * b.n, a.d * b.d)
RSub(a, b) == Rat(a.n * b.d - b.n * a.d, a.d * b.d)
RDiv(a, b) ==
  IF b.n = 0 THEN [n |-> a.n, d |-> 0]
  ELSE IF b.n > 0 THEN Rat(a.n * b.d, a.d * b.n)
  ELSE Rat(-(a.n * b.d), -(a.d * b.n))

RLess(a, b) == a.n * b.d < b.n * a.d
RLeq(a, b) == a.n * b.d <= b.n * a.d
RMax(a, b) == IF RLess(a, b) THEN b ELSE a
RMin(a, b) == IF RLess(b, a) THEN b ELSE a
Positive(a) == a.n > 0

\* a ?? b
OrElse(a, b) == IF a = None THEN b ELSE a[1]

\* bm.cpc?.value and the like: undefined when the sample is missing.
Field(sample, name) == IF sample = None THEN None ELSE sample[1][name]

\* Lines 413-415
hasBenchmark(sample) ==
  sample # None /\ (sample[1].value # None \/ sample[1].median # None)

scenarioShown(data) == hasBenchmark(data.cpc) /\ hasBenchmark(data.cr)

\* Lines 417-421: state, and its copy current.
initialState(data) ==
  [budget |-> OrElse(data.budget, Whole(5000)),
   cpc |-> OrElse(Field(data.cpc, "value"),
                  OrElse(Field(data.cpc, "median"), Whole(3))),
   cr |-> OrElse(Field(data.cr, "value"),
                 OrElse(Field(data.cr, "median"), Rat(4, 100)))]

\* x || 20
OrTwenty(x) == IF x.n = 0 THEN Whole(20) ELSE x

\* Lines 427-434
derivedBounds(data) ==
  LET st == initialState(data)
  IN  [budgetMin |-> Whole(0),
       budgetMax |-> RMax(RMul(OrElse(data.budget, Whole(5000)), Whole(2)),
                          Whole(10000)),
       cpcMin |-> RMax(Rat(2, 10),
                       RMul(OrElse(Field(data.cpc, "p25"), st.cpc), Rat(5, 10))),
       cpcMax |-> OrTwenty(RMul(OrElse(Field(data.cpc, "p75"), st.cpc),
                                Rat(18, 10))),
       crMin |-> RMax(Rat(1, 1000),
                      RMul(OrElse(Field(data.cr, "p25"), st.cr), Rat(3, 10))),
       crMax |-> RMin(Whole(1),
                      RMul(OrElse(Field(data.cr, "p75"), st.cr), Whole(2)))]

\* Line 435
widenCpc(b, st) ==
  IF RLeq(b.cpcMax, b.cpcMin)
  THEN [b EXCEPT !.cpcMin = RMax(Rat(2, 10), RMul(st.cpc, Rat(5, 10))),
                 !.cpcMax = RMul(st.cpc, Whole(2))]
  ELSE b

\* Line 436
widenCr(b, st) ==
  IF RLeq(b.crMax, b.crMin)
  THEN [b EXCEPT !.crMin = RMax(Rat(1, 1000), RMul(st.cr, Rat(5, 10))),
                 !.crMax = RMin(Whole(1), RMul(st.cr, Whole(2)))]
  ELSE b

\* Lines 427-436: the bounds in force.
scenarioBounds(data) ==
  widenCr(widenCpc(derivedBounds(data), initialState(data)), initialState(data))

\* Line 438
clamp(v, min, max) == RMin(RMax(v, min), max)

boundMin(b, key) ==
  CASE key = "budget" -> b.budgetMin [] key = "cpc" -> b.cpcMin
    [] key = "cr" -> b.crMin

boundMax(b, key) ==
  CASE key = "budget" -> b.budgetMax [] key = "cpc" -> b.cpcMax
    [] key = "cr" -> b.crMax

\* Lines 440-445 with the guards left out.
compute_Unguarded(st) ==
  [clicks |-> RDiv(st.budget, st.cpc),
   leads |-> RDiv(RMul(st.budget, st.cr), st.cpc),
   cpl |-> Some(RDiv(st.cpc, st.cr))]

\* Lines 440-445
compute(st) ==
  [clicks |-> IF Positive(st.budget) /\ Positive(st.cpc)
              THEN RDiv(st.budget, st.cpc) ELSE Whole(0),
   leads |-> IF Positive(st.cr) /\ Positive(st.cpc)
             THEN RDiv(RMul(st.budget, st.cr), st.cpc) ELSE Whole(0),
   cpl |-> IF Positive(st.cr) THEN Some(RDiv(st.cpc, st.cr)) ELSE None]

\* Lines 475-477: (value - min) / (max - min) * 100
progress(v, min, max) == RDiv(RMul(RSub(v, min), Whole(100)), RSub(max, min))

\* Lines 469-543: what render() writes into the element.
render(st, b) ==
  LET out == compute(st)
  IN  [display |-> "block",
       clicks |-> out.clicks, leads |-> out.leads, cpl |-> out.cpl,
       banners |->
         (IF RLess(out.clicks, Whole(300)) \/ RLess(out.leads, Whole(15))
          THEN {"provisional"} ELSE {})
         \cup
         (IF RLeq(Whole(500), st.budget) /\ RLess(st.budget, Whole(1000))
          THEN {"budget_constrained"} ELSE {}),
       progress |-> [budget |-> progress(st.budget, b.budgetMin, b.budgetMax),
                     cpc |-> progress(st.cpc, b.cpcMin, b.cpcMax),
                     cr |-> progress(st.cr, b.crMin, b.crMax)]]

\* Line 415: el.style.display = 'none'
HiddenView ==
  [display |-> "none", clicks |-> Whole(0), leads |-> Whole(0), cpl |-> None,
   banners |-> {}, progress |-> None]

\* Lines 447-453 dividing every cr input by 100, slider input included.
updateState_AlwaysPercent(st, b, key, rawValue, isFromNumeric) ==
  IF rawValue = None THEN st
  ELSE LET num == IF key = "cr" THEN RDiv(rawValue[1], Whole(100))
                  ELSE rawValue[1]
       IN  [st EXCEPT ![key] = clamp(num, boundMin(b, key), boundMax(b, key))]

\* Lines 447-453.  rawValue is None when parseFloat does not give a finite
\* number, else <<the number parsed>>.
updateState(st, b, key, rawValue, isFromNumeric) ==
  IF rawValue = None THEN st
  ELSE LET num == IF key = "cr" /\ isFromNumeric
                  THEN RDiv(rawValue[1], Whole(100)) ELSE rawValue[1]
       IN  [st EXCEPT ![key] = clamp(num, boundMin(b, key), boundMax(b, key))]

\* goal && goal > 0
goalUsable(goal) == goal # None /\ goal[1].n # 0 /\ Positive(goal[1])

\* Line 465 solving with the quotient upside down.
snapCr_Inverted(st, b, goal) ==
  IF goalUsable(goal) /\ Positive(st.cpc)
  THEN [st EXCEPT !.cr = clamp(RDiv(goal[1], st.cpc), b.crMin, b.crMax)]
  ELSE st

\* Line 465
snapCr(st, b, goal) ==
  IF goalUsable(goal) /\ Positive(st.cpc)
  THEN [st EXCEPT !.cr = clamp(RDiv(st.cpc, goal[1]), b.crMin, b.crMax)]
  ELSE st

\* Line 466 moving cpc half of the way to goal * cr.
snapCpc_Halfway(st, b, goal) ==
  IF goalUsable(goal) /\ Positive(st.cr)
  THEN [st EXCEPT !.cpc = clamp(RSub(st.cpc,
                                     RMul(RSub(st.cpc, RMul(goal[1], st.cr)),
                                          Rat(1, 2))),
                                b.cpcMin, b.cpcMax)]
  ELSE st

\* Line 466
snapCpc(st, b, goal) ==
  IF goalUsable(goal) /\ Positive(st.cr)
  THEN [st EXCEPT !.cpc = clamp(RMul(goal[1], st.cr), b.cpcMin, b.cpcMax)]
  ELSE st

\* Line 464 restoring the budget only.
resetState_BudgetOnly(st, current) == [st EXCEPT !.budget = current.budget]

\* Line 464: state = { ...current }
resetState(st, current) == current

(***************************************************************************)
(* renderScenarioBuilder(d): the construction, lines 408-438 and 544.      *)
(* sbInput is <<[budget, goal_cpl, cpc, cr]>>, the fields of d it reads.   *)
(***************************************************************************)
renderScenarioBuilder ==
  /\ sbInput # None
  /\ sbView = None
  /\ IF scenarioShown(sbInput[1])
     THEN /\ sbClosure' = Some([goal |-> sbInput[1].goal_cpl,
                                 current |-> initialState(sbInput[1]),
                                 bounds |-> scenarioBounds(sbInput[1])])
          /\ sbState' = Some(initialState(sbInput[1]))
          /\ sbView' = Some(render(initialState(sbInput[1]),
                                   scenarioBounds(sbInput[1])))
     ELSE /\ sbView' = Some(HiddenView)
          /\ UNCHANGED <<sbClosure, sbState>>
  /\ UNCHANGED <<sbInput, sbEvent, diagnosisVars, benchVars, verdictVars, waterfallVars,
                 sessionVars, trajectoryVars, partnerVars>>

ScenarioFrame ==
  UNCHANGED <<sbInput, sbClosure, diagnosisVars, benchVars, verdictVars,
              waterfallVars, sessionVars, trajectoryVars, partnerVars>>

MaxRawSteps == 1

\* What parseFloat makes of e.target.value: nothing finite (None), or a
\* number below, inside or above the bounds of the three fields.
RawValues ==
  {None, Some(Whole(-600)), Some(Rat(1, 20)), Some(Whole(5)),
   Some(Whole(20000))}
    \cup {Some(Whole(600 * k)) : k \in 1..MaxRawSteps}

Keys == {"budget", "cpc", "cr"}

\* Lines 447-453 as a step: updateState(key, rawValue, isFromNumeric),
\* which renders unless the value is not finite.
sbUpdate(key, rawValue, isFromNumeric) ==
  /\ sbClosure # None
  /\ sbState' = Some(updateState(sbState[1], sbClosure[1].bounds, key,
                                 rawValue, isFromNumeric))
  /\ sbView' = IF rawValue = None THEN sbView
               ELSE Some(render(sbState'[1], sbClosure[1].bounds))
  /\ sbEvent' = Some("input")
  /\ ScenarioFrame

\* Lines 455-462: el.oninput (sliders, isFromNumeric false) and el.onchange
\* (number inputs, isFromNumeric true).
sbInputEvent ==
  \E key \in Keys, rawValue \in RawValues, isFromNumeric \in BOOLEAN :
    sbUpdate(key, rawValue, isFromNumeric)

\* Line 464: a click on #sb_reset.
sbReset ==
  /\ sbClosure # None
  /\ sbState' = Some(resetState(sbState[1], sbClosure[1].current))
  /\ sbView' = Some(render(sbState'[1], sbClosure[1].bounds))
  /\ sbEvent' = Some("sb_reset")
  /\ ScenarioFrame

\* Line 465: a click on #sb_snap_cr; nothing happens unless goal && goal > 0
\* && state.cpc > 0.
sbSnapCr ==
  /\ sbClosure # None
  /\ sbState' = Some(snapCr(sbState[1], sbClosure[1].bounds, sbClosure[1].goal))
  /\ sbView' = IF goalUsable(sbClosure[1].goal) /\ Positive(sbState[1].cpc)
               THEN Some(render(sbState'[1], sbClosure[1].bounds)) ELSE sbView
  /\ sbEvent' = Some("sb_snap_cr")
  /\ ScenarioFrame

\* Line 466: a click on #sb_snap_cpc; nothing happens unless goal &&
\* goal > 0 && state.cr > 0.
sbSnapCpc ==
  /\ sbClosure # None
  /\ sbState' = Some(snapCpc(sbState[1], sbClosure[1].bounds, sbClosure[1].goal))
  /\ sbView' = IF goalUsable(sbClosure[1].goal) /\ Positive(sbState[1].cr)
               THEN Some(render(sbState'[1], sbClosure[1].bounds)) ELSE sbView
  /\ sbEvent' = Some("sb_snap_cpc")
  /\ ScenarioFrame

BenchmarkOf(value, median, p25, p75) ==
  Some([value |-> value, median |-> median, p25 |-> p25, p75 |-> p75])

\* CPC benchmarks: none; $3 inside $2-$4; $10 above the bounds that $2-$4
\* give; $0.10 and no percentiles; a median only, with the percentiles out
\* of order; $0 with a p75 of $0.
CpcBenchmarks ==
  {None,
   BenchmarkOf(Some(Whole(3)), Some(Whole(3)), Some(Whole(2)), Some(Whole(4))),
   BenchmarkOf(Some(Whole(10)), None, Some(Whole(2)), Some(Whole(4))),
   BenchmarkOf(Some(Rat(1, 10)), None, None, None),
   BenchmarkOf(None, Some(Whole(3)), Some(Whole(8)), Some(Whole(2))),
   BenchmarkOf(Some(Whole(0)), None, None, Some(Whole(0)))}

\* CR benchmarks: none; 4% inside 3%-6%; 50% above the bounds that a p75 of
\* 10% gives; 0.04% and no percentiles; 0%.
CrBenchmarks ==
  {None,
   BenchmarkOf(Some(Rat(4, 100)), Some(Rat(5, 100)), Some(Rat(3, 100)),
               Some(Rat(6, 100))),
   BenchmarkOf(Some(Rat(1, 2)), None, None, Some(Rat(1, 10))),
   BenchmarkOf(Some(Rat(4, 10000)), None, None, None),
   BenchmarkOf(Some(Whole(0)), None, None, None)}

ScenarioInputs ==
  [budget : {None, Some(Whole(750))},
   goal_cpl : {None, Some(Whole(0)), Some(Whole(60))},
   cpc : CpcBenchmarks,
   cr : CrBenchmarks]

InitScenario ==
  /\ sbInput \in {Some(i) : i \in ScenarioInputs}
  /\ sbClosure = None /\ sbState = None /\ sbView = None /\ sbEvent = None
  /\ DiagnosisIdle /\ BenchIdle /\ VerdictIdle /\ WaterfallIdle
  /\ SessionIdle /\ TrajectoryIdle /\ PartnerIdle

NextScenario ==
  \/ renderScenarioBuilder
  \/ sbInputEvent
  \/ sbReset
  \/ sbSnapCr
  \/ sbSnapCpc

SpecScenario == InitScenario /\ [][NextScenario]_vars


(***************************************************************************)
(* The scenario builder's contract.                                        *)
(***************************************************************************)
Within(v, min, max) == RLeq(min, v) /\ RLeq(v, max)

\* C21: in every reachable scenario state, the initial one and the one after
\* any sequence of update, solve and reset, budget lies in
\* [budgetMin, budgetMax], cpc in [cpcMin, cpcMax] and cr in [crMin, crMax].
C21_StateWithinBounds ==
  sbState # None =>
    LET st == sbState[1]
        b == sbClosure[1].bounds
    IN  /\ Within(st.budget, b.budgetMin, b.budgetMax)
        /\ Within(st.cpc, b.cpcMin, b.cpcMax)
        /\ Within(st.cr, b.crMin, b.crMax)

\* cpl as section 4.5 states it: cpc/cr if cr > 0, else null.
StatedCpl(st) == IF st.cr.n > 0 THEN Some(RDiv(st.cpc, st.cr)) ELSE None

\* C22: after solveForGoalViaCR(goal) with goal > 0 and cpc > 0 the
\* recomputed cpl equals goal whenever cpc/goal lies within [crMin, crMax];
\* when the solved value was clamped, cpl differs from goal and the derived
\* cpl shows it.  Likewise after solveForGoalViaCPC(goal) with cr > 0 and
\* goal x cr against [cpcMin, cpcMax].
C22_SolveRoundTrip ==
  [][LET st == sbState[1]
         after == sbState'[1]
         b == sbClosure[1].bounds
         goal == sbClosure[1].goal
     IN  /\ (sbSnapCr /\ goalUsable(goal) /\ Positive(st.cpc)) =>
              LET solved == RDiv(st.cpc, goal[1])
              IN  /\ Within(solved, b.crMin, b.crMax) => StatedCpl(after) = goal
                  /\ after.cr # solved =>
                       StatedCpl(after) # goal /\ sbView'[1].cpl # goal
         /\ (sbSnapCpc /\ goalUsable(goal) /\ Positive(st.cr)) =>
              LET solved == RMul(goal[1], st.cr)
              IN  /\ Within(solved, b.cpcMin, b.cpcMax) => StatedCpl(after) = goal
                  /\ after.cpc # solved =>
                       StatedCpl(after) # goal /\ sbView'[1].cpl # goal
    ]_vars

\* A $5 click solved for a $60 goal: cr = 5/60, and cpl reads $60.
C22_Witness ==
  /\ sbState # None
  /\ sbClosure[1].goal = Some(Whole(60))
  /\ sbState[1].cpc = Whole(5)
  /\ sbState[1].cr = Rat(1, 12)
  /\ sbView[1].cpl = Some(Whole(60))

\* v clamped to [min, max]; bounds out of order leave only the choice
\* between the two of them.
ClampedTo(result, v, min, max) ==
  IF RLeq(min, max)
  THEN result = (IF RLess(v, min) THEN min ELSE IF RLess(max, v) THEN max ELSE v)
  ELSE result \in {min, max}

\* The value update() works with: the number parsed, divided by 100 only
\* for a percent-entered conversion rate.
StatedValue(key, rawValue, isPercentInput) ==
  IF key = "cr" /\ isPercentInput THEN RMul(rawValue[1], Rat(1, 100))
  ELSE rawValue[1]

\* C23: update(field, rawValue, isPercentInput) with a value that is not a
\* finite number leaves the whole state unchanged; with a finite value it
\* sets only that field, to the value (divided by 100 only for a
\* percent-entered cr) clamped to the field's bounds, and leaves the other
\* two fields and all bounds unchanged.
C23_UpdateSetsOneField ==
  /\ [](sbState # None =>
         \A key \in Keys, rawValue \in RawValues, isPercentInput \in BOOLEAN :
           LET st == sbState[1]
               b == sbClosure[1].bounds
               after == updateState(st, b, key, rawValue, isPercentInput)
           IN  /\ rawValue = None => after = st
               /\ rawValue # None =>
                    /\ ClampedTo(after[key],
                                 StatedValue(key, rawValue, isPercentInput),
                                 boundMin(b, key), boundMax(b, key))
                    /\ \A other \in Keys \ {key} : after[other] = st[other])
  /\ [][sbEvent' = Some("input") =>
          /\ sbClosure' = sbClosure
          /\ \E key \in Keys :
               \A other \in Keys \ {key} : sbState'[1][other] = sbState[1][other]
       ]_vars

\* With no goal to solve for, an input event moved the conversion rate from
\* 4% to 5% and nothing else moved.
C23_Witness ==
  /\ sbEvent = Some("input")
  /\ sbClosure[1].goal = None
  /\ sbClosure[1].current.cr = Rat(4, 100)
  /\ sbState[1] = [sbClosure[1].current EXCEPT !.cr = Rat(1, 20)]
  /\ Within(Rat(1, 20), sbClosure[1].bounds.crMin, sbClosure[1].bounds.crMax)

\* C24: after any sequence of update and solve operations, reset() makes
\* the state equal to the snapshot {budget, cpc, cr} taken at construction;
\* no operation ever alters that snapshot or the bounds.
C24_ResetRestoresSnapshot ==
  sbClosure # None =>
    /\ sbClosure[1].current = initialState(sbInput[1])
    /\ sbClosure[1].bounds = scenarioBounds(sbInput[1])
    /\ sbEvent = Some("sb_reset") => sbState[1] = initialState(sbInput[1])

\* A reset of the builder made for a $750 budget, a $3 click and a 4%
\* conversion rate.
C24_Witness ==
  /\ sbEvent = Some("sb_reset")
  /\ sbState[1] = [budget |-> Whole(750), cpc |-> Whole(3), cr |-> Rat(4, 100)]
  /\ sbView[1].clicks = Whole(250)

\* goal missing or <= 0
GoalMissing(goal) == goal = None \/ RLeq(goal[1], Whole(0))

\* C25: every scenario operation is idempotent: update(field, v, p),
\* solveForGoalViaCR(goal), solveForGoalViaCPC(goal) or reset() applied
\* twice in succession with the same arguments leaves the state that one
\* application leaves; and an operation whose precondition fails (a value
\* that is not finite; goal missing or <= 0; cpc <= 0 for the CR solve;
\* cr <= 0 for the CPC solve) changes nothing.
C25_Idempotent ==
  /\ [](sbState # None =>
         LET st == sbState[1]
             b == sbClosure[1].bounds
             goal == sbClosure[1].goal
             current == sbClosure[1].current
         IN  /\ \A key \in Keys, rawValue \in RawValues, p \in BOOLEAN :
                  LET once == updateState(st, b, key, rawValue, p)
                  IN  /\ updateState(once, b, key, rawValue, p) = once
                      /\ rawValue = None => once = st
             /\ snapCr(snapCr(st, b, goal), b, goal) = snapCr(st, b, goal)
             /\ snapCpc(snapCpc(st, b, goal), b, goal) = snapCpc(st, b, goal)
             /\ resetState(resetState(st, current), current)
                  = resetState(st, current)
             /\ (GoalMissing(goal) \/ RLeq(st.cpc, Whole(0)))
                  => snapCr(st, b, goal) = st
             /\ (GoalMissing(goal) \/ RLeq(st.cr, Whole(0)))
                  => snapCpc(st, b, goal) = st)
  /\ [][LET st == sbState[1]
            goal == sbClosure[1].goal
        IN  /\ (sbSnapCr /\ (GoalMissing(goal) \/ RLeq(st.cpc, Whole(0))))
                 => (sbState' = sbState /\ sbView' = sbView)
            /\ (sbSnapCpc /\ (GoalMissing(goal) \/ RLeq(st.cr, Whole(0))))
                 => (sbState' = sbState /\ sbView' = sbView)
       ]_vars

\* The CPC solve run on a state it had already solved: a 5% conversion
\* rate, a $60 goal and the $3 click that goal x cr gives.
C25_Witness ==
  /\ sbEvent = Some("sb_snap_cpc")
  /\ sbClosure[1].goal = Some(Whole(60))
  /\ sbState[1].cr = Rat(1, 20)
  /\ sbState[1].cpc = Whole(3)
  /\ sbClosure[1].current.cpc # Whole(3)

\* A number, as opposed to NaN or Infinity.
Finite(x) == x.d > 0

StatedClicks(st) ==
  IF RLess(Whole(0), st.budget) /\ RLess(Whole(0), st.cpc)
  THEN RDiv(st.budget, st.cpc) ELSE Whole(0)

StatedLeads(st) ==
  IF RLess(Whole(0), st.cr) /\ RLess(Whole(0), st.cpc)
  THEN RDiv(RMul(st.budget, st.cr), st.cpc) ELSE Whole(0)

\* C26: in every reachable scenario state derive() yields clicks =
\* budget/cpc if budget > 0 and cpc > 0, else 0; leads = budget x cr / cpc
\* if cr > 0 and cpc > 0, else 0; cpl = cpc/cr if cr > 0, else null; no
\* derived output is NaN or Infinity.
C26_DerivedOutputs ==
  sbState # None =>
    LET st == sbState[1]
        out == compute(st)
    IN  /\ out.clicks = StatedClicks(st)
        /\ out.leads = StatedLeads(st)
        /\ out.cpl = StatedCpl(st)
        /\ Finite(out.clicks) /\ Finite(out.leads)
        /\ out.cpl # None => Finite(out.cpl[1])
        /\ sbView[1].clicks = out.clicks
        /\ sbView[1].leads = out.leads
        /\ sbView[1].cpl = out.cpl

\* A campaign with a conversion rate of 0: clicks are counted, leads are 0
\* and cpl is null.
C26_Witness ==
  /\ sbState # None
  /\ sbState[1].cr = Whole(0)
  /\ Positive(sbView[1].clicks)
  /\ sbView[1].leads = Whole(0)
  /\ sbView[1].cpl = None

\* C27: for every initial budget, cpc and cr and every combination of
\* present or missing p25/p75, the bounds in force after construction, the
\* fallback widening applied where the derived min >= max, satisfy
\* budgetMin < budgetMax, cpcMin < cpcMax and crMin < crMax, with
\* crMax <= 1.0.
C27_BoundsOrdered ==
  sbClosure # None =>
    LET b == sbClosure[1].bounds
    IN  /\ RLess(b.budgetMin, b.budgetMax)
        /\ RLess(b.cpcMin, b.cpcMax)
        /\ RLess(b.crMin, b.crMax)
        /\ RLeq(b.crMax, Whole(1))

(***************************************************************************)
(* The session logic of the unified platform front end: the globals        *)
(* authToken and currentUser, localStorage's auth_token (storedToken) and  *)
(* the asynchronous calls in flight.  authCalls[i] is                      *)
(* [kind, phase, token]: kind "load" for the DOMContentLoaded handler,     *)
(* "login" for handleLogin; phase is the await the call is suspended at,   *)
(* "login" (fetch /auth/login), "loginJson" (response.json()), "me"        *)
(* (fetch /auth/me), "meJson" (response.json()), or "done".  The token of  *)
(* the i-th call's login is i, the token found in localStorage is 0.       *)
(***************************************************************************)
MaxLogins == 2

SessionFrame ==
  UNCHANGED <<diagnosisVars, benchVars, verdictVars, waterfallVars,
              scenarioVars, trajectoryVars, partnerVars>>

AuthCall(kind, phase, token) == [kind |-> kind, phase |-> phase, token |-> token]

Suspended(phase) == {i \in DOMAIN authCalls : authCalls[i].phase = phase}

Resume(i, phase) == authCalls' = [authCalls EXCEPT ![i].phase = phase]

\* Lines 121-123 (updateAuthUI and showNotification write the page only).
logout ==
  /\ authToken' = None
  /\ currentUser' = None
  /\ storedToken' = None

\* What a fetch or a response.json() comes back with.
FetchResults == {"ok", "not_ok", "error"}

\* Lines 31-35: the stored token is adopted and verifyAuthToken (lines
\* 99-102) issues GET /auth/me.
DOMContentLoaded ==
  /\ \A i \in DOMAIN authCalls : authCalls[i].kind # "load"
  /\ IF storedToken # None
     THEN /\ authToken' = storedToken
          /\ authCalls' = Append(authCalls, AuthCall("load", "me", storedToken))
     ELSE /\ authCalls' = Append(authCalls, AuthCall("load", "done", None))
          /\ UNCHANGED authToken
  /\ UNCHANGED <<currentUser, storedToken>>
  /\ SessionFrame

\* Lines 57-60 and 65-76: the login form is submitted, POST /auth/login.
handleLogin ==
  /\ Cardinality({i \in DOMAIN authCalls : authCalls[i].kind = "login"})
       < MaxLogins
  /\ authCalls' = Append(authCalls, AuthCall("login", "login", None))
  /\ UNCHANGED <<authToken, currentUser, storedToken>>
  /\ SessionFrame

\* Lines 70-95: the login response arrives; ok goes on to response.json(),
\* anything else ends in a notification.
loginResponse ==
  \E i \in Suspended("login"), outcome \in FetchResults :
    /\ Resume(i, IF outcome = "ok" THEN "loginJson" ELSE "done")
    /\ UNCHANGED <<authToken, currentUser, storedToken>>
    /\ SessionFrame

\* Lines 79-83 and 99-102: the body is read, the token stored, and
\* verifyAuthToken issues GET /auth/me; a body that does not parse lands in
\* the catch of line 92.
loginData ==
  \E i \in Suspended("loginJson"), outcome \in {"ok", "error"} :
    /\ IF outcome = "ok"
       THEN /\ authToken' = Some(i)
            /\ storedToken' = Some(i)
            /\ authCalls' = [authCalls EXCEPT ![i].phase = "me",
                                              ![i].token = Some(i)]
       ELSE /\ Resume(i, "done")
            /\ UNCHANGED <<authToken, storedToken>>
    /\ UNCHANGED currentUser
    /\ SessionFrame

\* Lines 102-117: the /auth/me response arrives; ok goes on to
\* response.json(), anything else calls handleLogout.
verifyResponse ==
  \E i \in Suspended("me"), outcome \in FetchResults :
    /\ IF outcome = "ok"
       THEN /\ Resume(i, "meJson")
            /\ UNCHANGED <<authToken, currentUser, storedToken>>
       ELSE /\ Resume(i, "done")
            /\ logout
    /\ SessionFrame

\* Lines 109-110: currentUser = await response.json(); a body that does not
\* parse lands in the catch of line 114.
verifyData ==
  \E i \in Suspended("meJson"), outcome \in {"ok", "error"} :
    /\ Resume(i, "done")
    /\ IF outcome = "ok"
       THEN /\ currentUser' = authCalls[i].token
            /\ UNCHANGED <<authToken, storedToken>>
       ELSE logout
    /\ SessionFrame

\* Lines 62 and 120-126: a click on the logout button.
handleLogout ==
  /\ logout
  /\ UNCHANGED authCalls
  /\ SessionFrame

InitSession ==
  /\ authToken = None /\ currentUser = None
  /\ storedToken \in {None, Some(0)}
  /\ authCalls = << >>
  /\ DiagnosisIdle /\ BenchIdle /\ VerdictIdle /\ WaterfallIdle
  /\ ScenarioIdle /\ TrajectoryIdle /\ PartnerIdle

NextSession ==
  \/ DOMContentLoaded
  \/ handleLogin
  \/ loginResponse
  \/ loginData
  \/ verifyResponse
  \/ verifyData
  \/ handleLogout

SpecSession == InitSession /\ [][NextSession]_vars

\* C28: in every reachable state of the session logic, under any
\* interleaving of login, token-verification responses and logout,
\* currentUser != null implies authToken != null.
C28_UserImpliesToken == currentUser # None => authToken # None

(***************************************************************************)
(* The trajectory cache of the campaign cards (trajectory.js).             *)
(* trajectoryCache[c] is None when the Map has no entry for campaign c,    *)
(* else <<data>>; the data of a response is written as the number of       *)
(* clears that had happened when its request was issued.                   *)
(* trajectoryCalls[i] is a pending renderTrajectorySection or preload      *)
(* call, [kind, campaign, phase, issued, container]: phase is the await it *)
(* is suspended at, "fetch" or "json", or "done".                          *)
(* trajectoryLog is <<[clears, served]>>: how often clearTrajectoryCache   *)
(* has run, and the data and clear count of the last cache hit.            *)
(***************************************************************************)
MaxCampaigns == 2
MaxTrajectoryCalls == 2
MaxClears == 1

Campaigns == 1..MaxCampaigns

TrajectoryFrame ==
  UNCHANGED <<diagnosisVars, benchVars, verdictVars, waterfallVars,
              scenarioVars, sessionVars, partnerVars>>

clears == trajectoryLog[1].clears

TrajectoryCall(kind, campaign, container) ==
  [kind |-> kind, campaign |-> campaign, phase |-> "fetch", issued |-> clears,
   container |-> container]

\* Lines 15-24: a cache hit renders from the cache; a miss shows the loading
\* state and issues the request.
renderTrajectorySection ==
  \E campaignId \in Campaigns :
    IF trajectoryCache[campaignId] # None
    THEN /\ trajectoryLog' =
              Some([trajectoryLog[1] EXCEPT
                      !.served = Some([data |-> trajectoryCache[campaignId][1],
                                       clears |-> clears])])
         /\ UNCHANGED <<trajectoryCache, trajectoryCalls>>
         /\ TrajectoryFrame
    ELSE /\ Len(trajectoryCalls) < MaxTrajectoryCalls
         /\ trajectoryCalls' =
              Append(trajectoryCalls,
                     TrajectoryCall("render", campaignId, "loading"))
         /\ UNCHANGED <<trajectoryCache, trajectoryLog>>
         /\ TrajectoryFrame

\* Lines 249-253: one request for every id that is not cached, all issued
\* before the first response is looked at.
preloadTrajectoryData ==
  \E campaignIds \in (SUBSET Campaigns) \ {{}} :
    LET Missing(c) == c \in campaignIds /\ trajectoryCache[c] = None
        ids == SelectSeq([c \in Campaigns |-> c], Missing)
    IN  /\ Len(trajectoryCalls) + Len(ids) <= MaxTrajectoryCalls
        /\ trajectoryCalls' =
             trajectoryCalls \o
               [j \in 1..Len(ids) |-> TrajectoryCall("preload", ids[j], "none")]
        /\ UNCHANGED <<trajectoryCache, trajectoryLog>>
        /\ TrajectoryFrame

\* Lines 24-28 and 38-41, 253-254 and 258-260: the response arrives.
trajectoryResponse ==
  \E i \in DOMAIN trajectoryCalls, outcome \in FetchResults :
    /\ trajectoryCalls[i].phase = "fetch"
    /\ trajectoryCalls' =
         IF outcome = "ok"
         THEN [trajectoryCalls EXCEPT ![i].phase = "json"]
         ELSE [trajectoryCalls EXCEPT
                 ![i].phase = "done",
                 ![i].container = IF trajectoryCalls[i].kind = "render"
                                  THEN "error" ELSE "none"]
    /\ UNCHANGED <<trajectoryCache, trajectoryLog>>
    /\ TrajectoryFrame

\* Lines 30-36 and 255-256: the body is read and cached; a body that does
\* not parse lands in the catch.
trajectoryData ==
  \E i \in DOMAIN trajectoryCalls, outcome \in {"ok", "error"} :
    /\ trajectoryCalls[i].phase = "json"
    /\ IF outcome = "ok"
       THEN /\ trajectoryCache' =
                 [trajectoryCache EXCEPT
                    ![trajectoryCalls[i].campaign] =
                       Some(trajectoryCalls[i].issued)]
            /\ trajectoryCalls' =
                 [trajectoryCalls EXCEPT
                    ![i].phase = "done",
                    ![i].container = IF trajectoryCalls[i].kind = "render"
                                     THEN "data" ELSE "none"]
       ELSE /\ trajectoryCalls' =
                 [trajectoryCalls EXCEPT
                    ![i].phase = "done",
                    ![i].container = IF trajectoryCalls[i].kind = "render"
                                     THEN "error" ELSE "none"]
            /\ UNCHANGED trajectoryCache
    /\ UNCHANGED trajectoryLog
    /\ TrajectoryFrame

\* Lines 242-244
clearTrajectoryCache ==
  /\ clears < MaxClears
  /\ trajectoryCache' = [c \in Campaigns |-> None]
  /\ trajectoryLog' = Some([trajectoryLog[1] EXCEPT !.clears = clears + 1])
  /\ UNCHANGED trajectoryCalls
  /\ TrajectoryFrame

InitTrajectory ==
  /\ trajectoryCache = [c \in Campaigns |-> None]
  /\ trajectoryCalls = << >>
  /\ trajectoryLog = Some([clears |-> 0, served |-> None])
  /\ DiagnosisIdle /\ BenchIdle /\ VerdictIdle /\ WaterfallIdle
  /\ ScenarioIdle /\ SessionIdle /\ PartnerIdle

NextTrajectory ==
  \/ renderTrajectorySection
  \/ preloadTrajectoryData
  \/ trajectoryResponse
  \/ trajectoryData
  \/ clearTrajectoryCache

SpecTrajectory == InitTrajectory /\ [][NextTrajectory]_vars

\* C29: after clearTrajectoryCache() returns, the trajectory cache never
\* again holds, and renderTrajectorySection never serves from cache, data
\* obtained from a request that was issued before the clear, for any
\* interleaving of render and preload calls, response arrivals and clears.
C29_NoDataFromBeforeClear ==
  trajectoryLog # None =>
    /\ \A c \in Campaigns :
         trajectoryCache[c] # None => trajectoryCache[c][1] = clears
    /\ LET served == trajectoryLog[1].served
       IN  served # None => served[1].data = served[1].clears

(***************************************************************************)
(* One partner card of the book view (partners.js, boot).  partnerCard is  *)
(* <<[show, selected, loaded, content]>>: the 'show' class of the detail   *)
(* drop (drop.hidden is its negation), the 'selected' class of the card    *)
(* (with the caret and aria-expanded), the closure's loaded flag, and what *)
(* the drop holds: the "shell" markup, the "detail" filled in, or the      *)
(* "error" message.  partnerCalls[i] is the i-th fetchPartnerDetail call,  *)
(* [phase, inFlight, afterSuccess]: phase "fetch" while awaited, then "ok" *)
(* (detail loaded) or "failed"; the two flags note whether, when it was    *)
(* issued, another call was being awaited and whether one had succeeded.   *)
(***************************************************************************)
MaxPartnerCalls == 3

PartnerFrame ==
  UNCHANGED <<diagnosisVars, benchVars, verdictVars, waterfallVars,
              scenarioVars, sessionVars, trajectoryVars>>

Awaited == {i \in DOMAIN partnerCalls : partnerCalls[i].phase = "fetch"}

\* Lines 369-386 and 394-397: an activation of the header (click, Enter or
\* Space) up to the await.
toggle ==
  LET card == partnerCard[1]
  IN  /\ partnerCard # None
      /\ IF card.show
         THEN /\ partnerCard' = Some([card EXCEPT !.show = FALSE,
                                                  !.selected = FALSE])
              /\ UNCHANGED partnerCalls
         ELSE IF ~card.loaded
         THEN /\ Len(partnerCalls) < MaxPartnerCalls
              /\ partnerCard' = Some([card EXCEPT !.selected = TRUE])
              /\ partnerCalls' =
                   Append(partnerCalls,
                          [phase |-> "fetch",
                           inFlight |-> Awaited # {},
                           afterSuccess |->
                             \E i \in DOMAIN partnerCalls :
                               partnerCalls[i].phase = "ok"])
         ELSE /\ partnerCard' = Some([card EXCEPT !.selected = TRUE,
                                                  !.show = TRUE])
              /\ UNCHANGED partnerCalls
      /\ PartnerFrame

\* Lines 386-393: fetchPartnerDetail settles.  fillCardDetail (lines
\* 290-293) opens the drop and then writes into the elements of the shell;
\* once an error message has replaced them it throws, into the same catch
\* as a failed request.
partnerDetail ==
  \E i \in Awaited, outcome \in {"ok", "failed"} :
    LET card == partnerCard[1]
        filled == outcome = "ok" /\ card.content # "error"
    IN  /\ partnerCalls' =
             [partnerCalls EXCEPT ![i].phase = IF filled THEN "ok" ELSE "failed"]
        /\ partnerCard' =
             IF filled
             THEN Some([card EXCEPT !.show = TRUE, !.content = "detail",
                                    !.loaded = TRUE])
             ELSE Some([card EXCEPT !.show = TRUE, !.content = "error"])
        /\ PartnerFrame

InitPartner ==
  /\ partnerCard = Some([show |-> FALSE, selected |-> FALSE, loaded |-> FALSE,
                         content |-> "shell"])
  /\ partnerCalls = << >>
  /\ DiagnosisIdle /\ BenchIdle /\ VerdictIdle /\ WaterfallIdle
  /\ ScenarioIdle /\ SessionIdle /\ TrajectoryIdle

NextPartner ==
  \/ toggle
  \/ partnerDetail

SpecPartner == InitPartner /\ [][NextPartner]_vars

\* C30: for each partner card, under any interleaving of header
\* activations and fetch completions, the partner-detail request is issued
\* at most once unless an earlier request for that card failed: once a
\* detail load has succeeded, or while one is in flight, a further toggle
\* starts no new request.
C30_NoSecondRequest ==
  \A i \in DOMAIN partnerCalls :
    ~partnerCalls[i].inFlight /\ ~partnerCalls[i].afterSuccess

=============================================================================
